---- MODULE Spec2Model ----
(***************************************************************************)
(* Model of _remove_people_from_image (src/Server/Lambda_handler.py).      *)
(*                                                                         *)
(* An image is a record [size |-> <<w, h>>, px |-> f] where f maps every   *)
(* pixel position <<x, y>> with 0 <= x < w, 0 <= y < h to one channel      *)
(* value in 0..255 (the code treats every channel alike).  Image objects   *)
(* live in a heap `images` indexed by object identity, so that aliasing    *)
(* between the caller's image and the working image is expressible.        *)
(*                                                                         *)
(* A bounding-box field is <<>> when the key is absent (or None) and <<n>> *)
(* for the number n / Denom.  Denom is a power of two, so that the float   *)
(* product field * width of the code is exact and int() is the truncation  *)
(* toward zero of the rational n * width / Denom.                          *)
(***************************************************************************)
EXTENDS Integers, Sequences, FiniteSets, TLC

VARIABLES
    images,             \* heap: object identity -> image (or NoImage)
    original,           \* the source image's value when the call was made
    working_image,      \* reference held by the local `working_image`
    width, height,      \* locals of line 30
    person_instances,   \* the argument: sequence of instances
    idx,                \* position of the for loop (1-based, next to visit)
    pc,                 \* control point
    left, top, right, bottom,       \* locals of lines 36-47
    strip_height, strip_width,      \* locals of lines 55-56
    donor,              \* the crop box handed to crop(), <<>> when none
    replacement_patch,  \* local of lines 58-82 (NoImage models None)
    outcomes,           \* per visited box: how its iteration ended
    result,             \* reference returned at line 85 ("none" before)
    variant,            \* which lambda_handler runs ("none": only the remover)
    event,              \* the argument of lambda_handler
    hpc,                \* control point of lambda_handler
    data,               \* local `data`
    base64_string,      \* local `base64_string` (<<>> models None)
    remove_people,      \* local `remove_people`, raw and then normalised
    labels,             \* response['Labels'] of the detection service
    raised,             \* the exception in flight or caught, <<>> when none
    remover_called,     \* whether line 253 was executed
    response            \* what lambda_handler returned (<<>> before)

\* The state of _remove_people_from_image.
rvars == <<images, original, working_image, width, height, person_instances,
           idx, pc, left, top, right, bottom, strip_height, strip_width,
           donor, replacement_patch, outcomes, result>>

\* The state of lambda_handler.
hvars == <<variant, event, hpc, data, base64_string, remove_people, labels,
           raised, remover_called, response>>

vars == <<rvars, hvars>>

----------------------------------------------------------------------------
(* Bounds of the model *)

\* Longest sequence of person instances handed to the function.
MaxBoxes == 2

\* Side of the non-empty square images whose pixels are modelled.
ImgSize == 8

\* Box fields are multiples of 1 / 2^LogDenom.
LogDenom == 3

Denom == 2 ^ LogDenom

----------------------------------------------------------------------------
(* Program constants *)

StripMin == 2
StripMax == 24
StripDivisor == 4

----------------------------------------------------------------------------
(* Arithmetic of the host language *)

Max(a, b) == IF a >= b THEN a ELSE b
Min(a, b) == IF a <= b THEN a ELSE b
Abs(a) == IF a >= 0 THEN a ELSE -a

\* int(n / d) for an exact rational: truncation toward zero.
TruncDiv(n, d) == IF n >= 0 THEN n \div d ELSE -((-n) \div d)

\* bbox.get(key, 0) or 0
FieldOrZero(f) == IF f = <<>> THEN 0 ELSE f[1]

\* int((bbox.get(key, 0) or 0) * dim)
ToPixels(f, dim) == TruncDiv(FieldOrZero(f) * dim, Denom)

\* instance.get('BoundingBox') or {}
NoFields == [Left |-> <<>>, Top |-> <<>>, Width |-> <<>>, Height |-> <<>>]
BBoxOf(instance) == IF instance.BoundingBox = <<>> THEN NoFields
                    ELSE instance.BoundingBox[1]

----------------------------------------------------------------------------
(* Images *)

NoImage == [size |-> <<0, 0>>, px |-> <<>>, none |-> TRUE]

Positions(w, h) == (0 .. (w - 1)) \X (0 .. (h - 1))

MkImage(w, h, f) == [size |-> <<w, h>>, px |-> f, none |-> FALSE]

\* Image.copy(): a new object with the same size and pixels.
CopyOf(img) == MkImage(img.size[1], img.size[2], img.px)

\* Image.crop((l, t, r, b)): a new image of size (r-l, b-t); positions outside
\* the cropped image read as 0.
Crop(img, box) ==
    LET l == box[1]  t == box[2]  r == box[3]  b == box[4]
        w == Max(r - l, 0)  h == Max(b - t, 0)
    IN MkImage(w, h,
         [p \in Positions(w, h) |->
            IF <<l + p[1], t + p[2]>> \in DOMAIN img.px
            THEN img.px[<<l + p[1], t + p[2]>>] ELSE 0])

\* Triangle (bilinear) filter weight of input sample x for output sample xx
\* when a line of `in` samples is resampled to `out` samples, scaled by
\* 2 * max(in, out) to stay in the integers: the filter is centred at
\* (xx + 1/2) * in / out and has support max(in / out, 1).
Weight(in, out, xx, x) ==
    LET m == Max(in, out)
        d == Abs((2 * x + 1) * out - (2 * xx + 1) * in)
    IN IF d < 2 * m THEN 2 * m - d ELSE 0

RECURSIVE WeightSum(_, _, _, _)
WeightSum(in, out, xx, n) ==
    IF n = 0 THEN 0
    ELSE Weight(in, out, xx, n - 1) + WeightSum(in, out, xx, n - 1)

\* Sum of weight * sample over the first n samples of the line `at`.
RECURSIVE WeightedSum(_, _, _, _, _)
WeightedSum(at, in, out, xx, n) ==
    IF n = 0 THEN 0
    ELSE Weight(in, out, xx, n - 1) * at[n - 1]
         + WeightedSum(at, in, out, xx, n - 1)

\* One output sample: the normalised weighted mean, rounded half up to 0..255
\* (the library computes it with 22-bit fixed-point coefficients; the exact
\* mean is taken here).  Resampling a line to its own length is the identity.
Resample(at, in, out, xx) ==
    LET ws == WeightSum(in, out, xx, in)
        s  == WeightedSum(at, in, out, xx, in)
    IN (2 * s + ws) \div (2 * ws)

\* The bilinear resampling of an image to ow x oh: a horizontal pass followed
\* by a vertical pass.
Bilinear(img, ow, oh) ==
    LET iw == img.size[1]
        ih == img.size[2]
        hor == [p \in Positions(ow, ih) |->
                  Resample([x \in 0 .. (iw - 1) |-> img.px[<<x, p[2]>>]],
                           iw, ow, p[1])]
    IN MkImage(ow, oh,
         [p \in Positions(ow, oh) |->
            Resample([y \in 0 .. (ih - 1) |-> hor[<<p[1], y>>]],
                     ih, oh, p[2])])

\* resize() called with the two dimensions exchanged.
ResizeSwapped(img, ow, oh) == Bilinear(img, oh, ow)

\* Image.resize((ow, oh), BILINEAR): a new image of exactly the requested
\* size.
Resize(img, ow, oh) == Bilinear(img, ow, oh)

\* paste() with the right and bottom edges of the box taken as inclusive.
PasteInclusive(img, patch, box) ==
    LET l == box[1]  t == box[2]  r == box[3]  b == box[4]
    IN MkImage(img.size[1], img.size[2],
         [p \in DOMAIN img.px |->
            IF l <= p[1] /\ p[1] <= r /\ t <= p[2] /\ p[2] <= b
            THEN patch.px[<<Min(p[1] - l, r - l - 1), Min(p[2] - t, b - t - 1)>>]
            ELSE img.px[p]])

\* Image.paste(patch, (l, t, r, b)): overwrites, in place, the positions of
\* the box with the patch's pixels; the box is clipped to the image.
Paste(img, patch, box) ==
    LET l == box[1]  t == box[2]  r == box[3]  b == box[4]
    IN MkImage(img.size[1], img.size[2],
         [p \in DOMAIN img.px |->
            IF l <= p[1] /\ p[1] < r /\ t <= p[2] /\ p[2] < b
            THEN patch.px[<<p[1] - l, p[2] - t>>]
            ELSE img.px[p]])

\* paste() raises ValueError unless the patch has the size of the box.
PasteFits(patch, box) ==
    patch.size = <<box[3] - box[1], box[4] - box[2]>>

\* resize() raises ValueError when a requested dimension is not positive.
ResizeFits(ow, oh) == ow > 0 /\ oh > 0

----------------------------------------------------------------------------
(* Geometry of one box (lines 35-56) *)

\* Lines 36-39: the raw pixel box.
RawLeft(instance, w) == ToPixels(BBoxOf(instance).Left, w)
RawTop(instance, h) == ToPixels(BBoxOf(instance).Top, h)
BoxWidth(instance, w) == ToPixels(BBoxOf(instance).Width, w)
BoxHeight(instance, h) == ToPixels(BBoxOf(instance).Height, h)

\* Line 41: the first rejection check.
SizeRejected(instance, w, h) ==
    BoxWidth(instance, w) <= 0 \/ BoxHeight(instance, h) <= 0

\* ClampedRect without lines 46-47 (left and top are not raised to 0).
ClampedRectNoFloor(instance, w, h) ==
    LET l == RawLeft(instance, w)
        t == RawTop(instance, h)
    IN << l, t,
          Min(w, l + BoxWidth(instance, w)),
          Min(h, t + BoxHeight(instance, h)) >>

\* Lines 44-47: the clamped rectangle <<left, top, right, bottom>>.
ClampedRect(instance, w, h) ==
    LET l == RawLeft(instance, w)
        t == RawTop(instance, h)
    IN << Max(0, l), Max(0, t),
          Min(w, l + BoxWidth(instance, w)),
          Min(h, t + BoxHeight(instance, h)) >>

\* Line 49: the second rejection check.
ClampRejected(rect) == rect[3] <= rect[1] \/ rect[4] <= rect[2]

\* StripThickness without the lower clamp.
StripThicknessNoMin(extent) == Min(extent \div StripDivisor, StripMax)

\* Lines 55-56: max(2, min(extent // 4, 24)).
StripThickness(extent) ==
    Max(StripMin, Min(extent \div StripDivisor, StripMax))

\* DonorBox with the two vertical sides tried in the opposite order.
DonorBoxBelowFirst(l, t, r, b, sh, sw, w, h) ==
    IF b + sh <= h THEN <<l, b, r, b + sh>>
    ELSE IF t - sh >= 0 THEN <<l, t - sh, r, t>>
    ELSE IF l - sw >= 0 THEN <<l - sw, t, l, b>>
    ELSE IF r + sw <= w THEN <<r, t, r + sw, b>>
    ELSE <<>>

\* DonorBox whose "below" test only asks for some room under the rectangle.
DonorBoxLooseBelow(l, t, r, b, sh, sw, w, h) ==
    IF t - sh >= 0 THEN <<l, t - sh, r, t>>
    ELSE IF b < h THEN <<l, b, r, b + sh>>
    ELSE IF l - sw >= 0 THEN <<l - sw, t, l, b>>
    ELSE IF r + sw <= w THEN <<r, t, r + sw, b>>
    ELSE <<>>

\* Lines 67-74: the crop box of the donor strip, <<>> when no side fits.
DonorBox(l, t, r, b, sh, sw, w, h) ==
    IF t - sh >= 0 THEN <<l, t - sh, r, t>>
    ELSE IF b + sh <= h THEN <<l, b, r, b + sh>>
    ELSE IF l - sw >= 0 THEN <<l - sw, t, l, b>>
    ELSE IF r + sw <= w THEN <<r, t, r + sw, b>>
    ELSE <<>>

----------------------------------------------------------------------------
(* Inputs *)

Field(n) == <<n>>
Absent == <<>>

Instance(l, t, w, h) ==
    [BoundingBox |-> << [Left |-> l, Top |-> t, Width |-> w, Height |-> h] >>]

\* An instance without a 'BoundingBox' key.
BareInstance == [BoundingBox |-> <<>>]

\* Source images: every pixel tagged by its position, and a diagonal ramp
\* that wraps around at 256.
Tagged(w, h) == MkImage(w, h, [p \in Positions(w, h) |-> (p[1] + w * p[2]) % 256])
Ramp(w, h) == MkImage(w, h, [p \in Positions(w, h) |-> (40 * p[1] + 90 * p[2]) % 256])

\* Sizes of the source image: a square image and the two empty shapes.
ImageSizes == { <<ImgSize, ImgSize>>, <<0, ImgSize>>, <<ImgSize, 0>> }

SourceImages ==
    UNION { {Tagged(sz[1], sz[2]), Ramp(sz[1], sz[2])} : sz \in ImageSizes }

\* Instances handed to the pixel-level model, in units of 1 / Denom of the
\* image side: boxes with a donor above, below, left, right and nowhere,
\* boxes thinner than their strip, boxes reaching past the image or lying
\* outside it, and boxes with absent fields.
PixelInstances ==
    { Instance(Field(2), Field(2), Field(4), Field(2)),
      Instance(Field(2), Absent, Field(4), Field(2)),
      Instance(Field(2), Absent, Field(4), Field(8)),
      Instance(Absent, Absent, Field(4), Field(8)),
      Instance(Absent, Absent, Field(10), Field(8)),
      Instance(Absent, Field(2), Field(10), Field(8)),
      Instance(Field(-2), Field(2), Field(4), Field(2)),
      Instance(Field(2), Field(4), Field(4), Field(1)),
      Instance(Field(4), Field(4), Field(2), Field(2)),
      Instance(Field(9), Field(2), Field(2), Field(2)),
      Instance(Field(2), Field(-2), Field(4), Field(2)),
      Instance(Field(2), Field(2), Absent, Field(2)),
      BareInstance }

BoxSeqs(n) == UNION { [1 .. k -> PixelInstances] : k \in 0 .. n }

----------------------------------------------------------------------------
(* _remove_people_from_image as a state machine *)

CurrentInstance == person_instances[idx]

\* _remove_people_from_image called on its own: no handler state.
HandlerAbsent ==
    /\ variant = "none"
    /\ event = <<>>
    /\ hpc = "none"
    /\ data = <<>>
    /\ base64_string = <<>>
    /\ remove_people = <<>>
    /\ labels = <<>>
    /\ raised = <<>>
    /\ remover_called = FALSE
    /\ response = <<>>
CurrentRect == <<left, top, right, bottom>>

Init ==
    /\ \E src \in SourceImages :
          /\ images = [o \in {"src", "work"} |-> IF o = "src" THEN src ELSE NoImage]
          /\ original = src
    /\ person_instances \in BoxSeqs(MaxBoxes)
    /\ working_image = "none"
    /\ width = 0 /\ height = 0
    /\ idx = 1
    /\ pc = "start"
    /\ left = 0 /\ top = 0 /\ right = 0 /\ bottom = 0
    /\ strip_height = 0 /\ strip_width = 0
    /\ donor = <<>>
    /\ replacement_patch = NoImage
    /\ outcomes = <<>>
    /\ result = "none"
    /\ HandlerAbsent

\* Copy without the copy: working_image is the caller's own object.
CopyAliased ==
    /\ pc = "start"
    /\ working_image' = "src"
    /\ width' = images["src"].size[1]
    /\ height' = images["src"].size[2]
    /\ pc' = "loop"
    /\ UNCHANGED <<images, original, person_instances, idx, left, top, right,
                   bottom, strip_height, strip_width, donor, replacement_patch,
                   outcomes, result>>
    /\ UNCHANGED hvars

\* Copy preceded by a check that raises on an image without pixels.
CopyChecked ==
    /\ pc = "start"
    /\ IF images["src"].size[1] <= 0 \/ images["src"].size[2] <= 0
       THEN /\ pc' = "raised"
            /\ UNCHANGED <<images, working_image, width, height>>
       ELSE /\ images' = [images EXCEPT !["work"] = CopyOf(images["src"])]
            /\ working_image' = "work"
            /\ width' = images["src"].size[1]
            /\ height' = images["src"].size[2]
            /\ pc' = "loop"
    /\ UNCHANGED <<original, person_instances, idx, left, top, right, bottom,
                   strip_height, strip_width, donor, replacement_patch,
                   outcomes, result>>
    /\ UNCHANGED hvars

\* Lines 29-30: working_image = source_image.copy(); width, height = size.
Copy ==
    /\ pc = "start"
    /\ images' = [images EXCEPT !["work"] = CopyOf(images["src"])]
    /\ working_image' = "work"
    /\ width' = images["src"].size[1]
    /\ height' = images["src"].size[2]
    /\ pc' = "loop"
    /\ UNCHANGED <<original, person_instances, idx, left, top, right, bottom,
                   strip_height, strip_width, donor, replacement_patch,
                   outcomes, result>>
    /\ UNCHANGED hvars

\* Lines 32-42: the next instance fails the first check; `continue`.
RejectSize ==
    /\ pc = "loop"
    /\ idx <= Len(person_instances)
    /\ SizeRejected(CurrentInstance, width, height)
    /\ left' = RawLeft(CurrentInstance, width)
    /\ top' = RawTop(CurrentInstance, height)
    /\ outcomes' = Append(outcomes, "skipped_degenerate")
    /\ idx' = idx + 1
    /\ UNCHANGED <<images, original, working_image, width, height,
                   person_instances, pc, right, bottom, strip_height,
                   strip_width, donor, replacement_patch, result>>
    /\ UNCHANGED hvars

\* Lines 32-50: the next instance collapses after clamping; `continue`.
RejectClamped ==
    /\ pc = "loop"
    /\ idx <= Len(person_instances)
    /\ ~SizeRejected(CurrentInstance, width, height)
    /\ LET rect == ClampedRect(CurrentInstance, width, height)
       IN /\ ClampRejected(rect)
          /\ left' = rect[1] /\ top' = rect[2]
          /\ right' = rect[3] /\ bottom' = rect[4]
    /\ outcomes' = Append(outcomes, "skipped_degenerate")
    /\ idx' = idx + 1
    /\ UNCHANGED <<images, original, working_image, width, height,
                   person_instances, pc, strip_height, strip_width, donor,
                   replacement_patch, result>>
    /\ UNCHANGED hvars

\* Lines 32-58: the next instance passes both checks; the rectangle and the
\* strip thicknesses are set and replacement_patch = None.
Accept ==
    /\ pc = "loop"
    /\ idx <= Len(person_instances)
    /\ ~SizeRejected(CurrentInstance, width, height)
    /\ LET rect == ClampedRect(CurrentInstance, width, height)
       IN /\ ~ClampRejected(rect)
          /\ left' = rect[1] /\ top' = rect[2]
          /\ right' = rect[3] /\ bottom' = rect[4]
          /\ strip_height' = StripThickness(rect[4] - rect[2])
          /\ strip_width' = StripThickness(rect[3] - rect[1])
    /\ replacement_patch' = NoImage
    /\ donor' = <<>>
    /\ pc' = "select"
    /\ UNCHANGED <<images, original, working_image, width, height,
                   person_instances, idx, outcomes, result>>
    /\ UNCHANGED hvars

\* SelectDonor cropping the strip out of the caller's source image.
SelectDonorFromSource ==
    /\ pc = "select"
    /\ donor' = DonorBox(left, top, right, bottom, strip_height, strip_width,
                         width, height)
    /\ replacement_patch' = IF donor' = <<>> THEN NoImage
                            ELSE Crop(images["src"], donor')
    /\ pc' = "check"
    /\ UNCHANGED <<images, original, working_image, width, height,
                   person_instances, idx, left, top, right, bottom,
                   strip_height, strip_width, outcomes, result>>
    /\ UNCHANGED hvars

\* Lines 67-74: crop the donor strip of the first side that fits out of the
\* working image.
SelectDonor ==
    /\ pc = "select"
    /\ donor' = DonorBox(left, top, right, bottom, strip_height, strip_width,
                         width, height)
    /\ replacement_patch' = IF donor' = <<>> THEN NoImage
                            ELSE Crop(images[working_image], donor')
    /\ pc' = "check"
    /\ UNCHANGED <<images, original, working_image, width, height,
                   person_instances, idx, left, top, right, bottom,
                   strip_height, strip_width, outcomes, result>>
    /\ UNCHANGED hvars

\* Line 77: replacement_patch is None or has a zero dimension.
PatchUnusable ==
    \/ replacement_patch.none
    \/ replacement_patch.size[1] = 0
    \/ replacement_patch.size[2] = 0

\* NoDonor leaving the loop (`break`) instead of continuing it.
NoDonorBreaks ==
    /\ pc = "check"
    /\ PatchUnusable
    /\ outcomes' = Append(outcomes, "skipped_no_donor")
    /\ idx' = Len(person_instances) + 1
    /\ pc' = "loop"
    /\ UNCHANGED <<images, original, working_image, width, height,
                   person_instances, left, top, right, bottom, strip_height,
                   strip_width, donor, replacement_patch, result>>
    /\ UNCHANGED hvars

\* Lines 77-78: no usable patch; `continue`.
NoDonor ==
    /\ pc = "check"
    /\ PatchUnusable
    /\ outcomes' = Append(outcomes, "skipped_no_donor")
    /\ idx' = idx + 1
    /\ pc' = "loop"
    /\ UNCHANGED <<images, original, working_image, width, height,
                   person_instances, left, top, right, bottom, strip_height,
                   strip_width, donor, replacement_patch, result>>
    /\ UNCHANGED hvars

\* Lines 82-83: stretch the patch to the rectangle and paste it into the
\* working image; a ValueError of resize() or paste() leaves the function.
Composite ==
    /\ pc = "check"
    /\ ~PatchUnusable
    /\ IF ResizeFits(right - left, bottom - top)
       THEN LET stretched == Resize(replacement_patch, right - left, bottom - top)
            IN /\ replacement_patch' = stretched
               /\ IF PasteFits(stretched, CurrentRect)
                  THEN /\ images' = [images EXCEPT ![working_image] =
                                        Paste(@, stretched, CurrentRect)]
                       /\ outcomes' = Append(outcomes, "applied")
                       /\ idx' = idx + 1
                       /\ pc' = "loop"
                  ELSE /\ pc' = "raised"
                       /\ UNCHANGED <<images, outcomes, idx>>
       ELSE /\ pc' = "raised"
            /\ UNCHANGED <<images, outcomes, idx, replacement_patch>>
    /\ UNCHANGED <<original, working_image, width, height, person_instances,
                   left, top, right, bottom, strip_height, strip_width, donor,
                   result>>
    /\ UNCHANGED hvars

\* Line 85: the loop is exhausted; return working_image.
Return ==
    /\ pc = "loop"
    /\ idx > Len(person_instances)
    /\ result' = working_image
    /\ pc' = "done"
    /\ UNCHANGED <<images, original, working_image, width, height,
                   person_instances, idx, left, top, right, bottom,
                   strip_height, strip_width, donor, replacement_patch,
                   outcomes>>
    /\ UNCHANGED hvars

Next ==
    \/ Copy
    \/ RejectSize
    \/ RejectClamped
    \/ Accept
    \/ SelectDonor
    \/ NoDonor
    \/ Composite
    \/ Return

Spec == Init /\ [][Next]_vars

\* The loop is a sequential program: it keeps running until it returns.
FairSpec == Spec /\ WF_vars(Next)

----------------------------------------------------------------------------
(* The function as a whole: what one iteration, and the loop, compute from *)
(* an image value and the instances (lines 32-85).                         *)

\* The strip thicknesses and the crop box of an accepted rectangle.
DonorOf(rect, w, h) ==
    DonorBox(rect[1], rect[2], rect[3], rect[4],
             StripThickness(rect[4] - rect[2]),
             StripThickness(rect[3] - rect[1]), w, h)

\* How the iteration for one instance ends on a w x h image.
Classify(instance, w, h) ==
    IF SizeRejected(instance, w, h) THEN "skipped_degenerate"
    ELSE IF ClampRejected(ClampedRect(instance, w, h)) THEN "skipped_degenerate"
    ELSE IF DonorOf(ClampedRect(instance, w, h), w, h) = <<>> THEN "skipped_no_donor"
    ELSE "applied"

\* Lines 67-83 for an instance whose iteration reaches the paste.
ApplyBox(img, instance) ==
    LET w == img.size[1]
        h == img.size[2]
        rect == ClampedRect(instance, w, h)
        patch == Crop(img, DonorOf(rect, w, h))
    IN Paste(img, Resize(patch, rect[3] - rect[1], rect[4] - rect[2]), rect)

\* Lines 35-83: one iteration of the loop.
RemoveOne(img, instance) ==
    IF Classify(instance, img.size[1], img.size[2]) = "applied"
    THEN ApplyBox(img, instance)
    ELSE img

\* Lines 32-85: the loop over the instances, in order.
RECURSIVE RemoveSeq(_, _)
RemoveSeq(img, instances) ==
    IF instances = <<>> THEN img
    ELSE RemoveSeq(RemoveOne(img, Head(instances)), Tail(instances))

\* Lines 29-85: the image the function returns.
RemovePeople(img, instances) == RemoveSeq(CopyOf(img), instances)

----------------------------------------------------------------------------
(* The geometry of one loop iteration on its own: the rectangle, the strip *)
(* thicknesses and the crop box are functions of the image size and the    *)
(* box alone, so they are explored over large images whose pixels are not  *)
(* modelled.                                                               *)

\* An image of the given size whose pixels are left out of the model.
SizeOnly(w, h) == [size |-> <<w, h>>, px |-> <<>>, none |-> FALSE]

GeomWidths == {1, 3, 44, 48, 127, 128}
GeomHeights == {3, 48, 127, 128}

GeomOffsets == {Absent, Field(-2), Field(1), Field(2), Field(6), Field(9)}
GeomExtents == {Absent, Field(-1), Field(1), Field(2), Field(6), Field(8), Field(10)}

GeomInstances ==
    { Instance(l, t, w, h) :
        l \in GeomOffsets, t \in GeomOffsets,
        w \in GeomExtents, h \in GeomExtents }
    \cup { BareInstance }

\* The state at the head of the loop (line 32) for a one-instance call.
InitGeom ==
    /\ \E w \in GeomWidths, h \in GeomHeights :
          /\ width = w /\ height = h
          /\ images = [o \in {"src", "work"} |-> SizeOnly(w, h)]
          /\ original = SizeOnly(w, h)
    /\ \E inst \in GeomInstances : person_instances = <<inst>>
    /\ working_image = "work"
    /\ idx = 1
    /\ pc = "loop"
    /\ left = 0 /\ top = 0 /\ right = 0 /\ bottom = 0
    /\ strip_height = 0 /\ strip_width = 0
    /\ donor = <<>>
    /\ replacement_patch = NoImage
    /\ outcomes = <<>>
    /\ result = "none"
    /\ HandlerAbsent

\* Lines 67-74 without the pixels: the crop box of the chosen side.
GeomSelect ==
    /\ pc = "select"
    /\ donor' = DonorBox(left, top, right, bottom, strip_height, strip_width,
                         width, height)
    /\ pc' = "check"
    /\ UNCHANGED <<images, original, working_image, width, height,
                   person_instances, idx, left, top, right, bottom,
                   strip_height, strip_width, replacement_patch, outcomes,
                   result>>
    /\ UNCHANGED hvars

NextGeom ==
    \/ RejectSize
    \/ RejectClamped
    \/ Accept
    \/ GeomSelect

SpecGeom == InitGeom /\ [][NextGeom]_vars

----------------------------------------------------------------------------
(* Properties of the geometry, checked under SpecGeom *)

\* A box that passed both rejection checks is being processed.
Accepted == pc \in {"select", "check"}

\* The fields of the instance being processed.
CurrentBBox == BBoxOf(CurrentInstance)

\* C1: a box that passes both rejection checks yields a pixel rectangle with
\* 0 <= left < right <= W and 0 <= top < bottom <= H, whatever its fields
\* (outside [0,1] or absent included).
C1_RectInsideImage ==
    Accepted =>
        /\ 0 <= left /\ left < right /\ right <= width
        /\ 0 <= top /\ top < bottom /\ bottom <= height

\* An accepted box with a negative Left, a Width above 1 and no Top.
C1_Witness ==
    /\ Accepted
    /\ CurrentBBox.Left # Absent /\ FieldOrZero(CurrentBBox.Left) < 0
    /\ FieldOrZero(CurrentBBox.Width) > Denom
    /\ CurrentBBox.Top = Absent
    /\ left = 0 /\ right = width

FitsAbove == top - strip_height >= 0
FitsBelow == bottom + strip_height <= height
FitsLeft == left - strip_width >= 0
FitsRight == right + strip_width <= width

\* C2: the donor is the strip above if it fits, else the strip below if it
\* fits, else the strip to the left if it fits, else the strip to the right
\* if it fits; there is no donor exactly when none of the four fits.
C2_FirstFitOrder ==
    pc = "check" =>
        /\ FitsAbove => donor = <<left, top - strip_height, right, top>>
        /\ ~FitsAbove /\ FitsBelow =>
              donor = <<left, bottom, right, bottom + strip_height>>
        /\ ~FitsAbove /\ ~FitsBelow /\ FitsLeft =>
              donor = <<left - strip_width, top, left, bottom>>
        /\ ~FitsAbove /\ ~FitsBelow /\ ~FitsLeft /\ FitsRight =>
              donor = <<right, top, right + strip_width, bottom>>
        /\ (donor = <<>>) <=>
              (~FitsAbove /\ ~FitsBelow /\ ~FitsLeft /\ ~FitsRight)

\* Every side fits and the strip above is the one taken.
C2_Witness ==
    /\ pc = "check"
    /\ FitsAbove /\ FitsBelow /\ FitsLeft /\ FitsRight
    /\ donor = <<left, top - strip_height, right, top>>

\* clamp(x, lo, hi) as the specification writes it.
Clamp(x, lo, hi) == IF x < lo THEN lo ELSE IF x > hi THEN hi ELSE x

\* C8: for every accepted rectangle both strip thicknesses are
\* clamp(floor(extent / 4), 2, 24): they lie in 2..24, are 2 for an extent
\* below 12 and 24 for an extent of 96 or more.
C8_StripThickness ==
    Accepted =>
        /\ strip_height = Clamp((bottom - top) \div 4, 2, 24)
        /\ strip_width = Clamp((right - left) \div 4, 2, 24)
        /\ strip_height \in 2 .. 24 /\ strip_width \in 2 .. 24
        /\ (bottom - top < 12 => strip_height = 2)
        /\ (right - left < 12 => strip_width = 2)
        /\ (bottom - top >= 96 => strip_height = 24)
        /\ (right - left >= 96 => strip_width = 24)

\* A rectangle one pixel wide and more than 96 pixels high.
C8_Witness ==
    /\ Accepted
    /\ right - left = 1 /\ strip_width = 2
    /\ bottom - top > 96 /\ strip_height = 24

\* C10: a selected donor strip lies inside the image, has positive width and
\* height (so the cropped patch has no zero dimension) and touches the
\* rectangle on the chosen side without sharing a pixel with it.
C10_DonorInsideAndDisjoint ==
    (pc = "check" /\ donor # <<>>) =>
        /\ 0 <= donor[1] /\ donor[1] < donor[3] /\ donor[3] <= width
        /\ 0 <= donor[2] /\ donor[2] < donor[4] /\ donor[4] <= height
        /\ \/ donor[4] = top /\ donor[1] = left /\ donor[3] = right
           \/ donor[2] = bottom /\ donor[1] = left /\ donor[3] = right
           \/ donor[3] = left /\ donor[2] = top /\ donor[4] = bottom
           \/ donor[1] = right /\ donor[2] = top /\ donor[4] = bottom
        /\ Positions(width, height) \cap
             { p \in (donor[1] .. donor[3] - 1) \X (donor[2] .. donor[4] - 1) :
                 left <= p[1] /\ p[1] < right /\ top <= p[2] /\ p[2] < bottom }
             = {}

\* A strip taken below a rectangle that starts at the top edge, with less
\* than a second strip's room left under it.
C10_Witness ==
    /\ pc = "check"
    /\ top = 0
    /\ donor = <<left, bottom, right, bottom + strip_height>>
    /\ bottom + 2 * strip_height > height

----------------------------------------------------------------------------
(* Properties of the whole function, checked under Spec and FairSpec *)

SourceWidth == original.size[1]
SourceHeight == original.size[2]

\* The instances whose iteration is skipped (rejected, or without a donor).
IsSkipped(instance) == Classify(instance, SourceWidth, SourceHeight) # "applied"
IsKept(instance) == ~IsSkipped(instance)

\* C3: a rejected box or a box without donor modifies no pixel and does not
\* stop the loop: every box gets its iteration, and the image returned is
\* the image the function returns for the sequence without the skipped boxes.
C3_SkippedBoxesHaveNoEffect ==
    pc = "done" =>
        /\ Len(outcomes) = Len(person_instances)
        /\ images[result] =
              RemovePeople(original, SelectSeq(person_instances, IsKept))

\* A call that skipped its first box for lack of a donor and then edited the
\* image for the second.
C3_Witness ==
    /\ pc = "done"
    /\ outcomes = <<"skipped_no_donor", "applied">>
    /\ images[result] # original

\* The source image has no pixels.
EmptySource == SourceWidth <= 0 \/ SourceHeight <= 0

\* C4 as claimed: with W <= 0 or H <= 0 the function fails before it visits
\* a box: it visits none and returns nothing.
C4_FailsFast ==
    (EmptySource /\ pc # "start") =>
        /\ outcomes = <<>>
        /\ pc # "done"

\* C4 as the code has it: with W = 0 or H = 0 the function raises nothing; it
\* visits every box, rejects each one at the first check (its computed width
\* or height is 0) without selecting a donor, and returns a copy that equals
\* the source.
C4_EmptyImageSkipsAll ==
    EmptySource =>
        /\ pc \notin {"raised", "select", "check"}
        /\ \A k \in 1 .. Len(outcomes) :
              /\ outcomes[k] = "skipped_degenerate"
              /\ SizeRejected(person_instances[k], SourceWidth, SourceHeight)
        /\ pc = "done" =>
              /\ Len(outcomes) = Len(person_instances)
              /\ result = "work"
              /\ images[result] = original

\* A call on an image of width 0 that returned after visiting two boxes.
C4_Witness ==
    /\ pc = "done"
    /\ SourceWidth = 0 /\ SourceHeight > 0
    /\ Len(outcomes) = 2

\* C5: the caller's source image keeps the value it had before the call at
\* every step and after the return; the object edited is the copy made
\* before the first box, never the caller's.
C5_SourceNeverMutated ==
    /\ images["src"] = original
    /\ pc # "start" => working_image = "work"
    /\ pc = "done" => result = "work"

\* The call returned an edited image and the source is intact.
C5_Witness ==
    /\ pc = "done"
    /\ "applied" \in { outcomes[k] : k \in 1 .. Len(outcomes) }
    /\ images[result] # original
    /\ images["src"] = original

\* The target rectangles of the boxes composited so far.
AppliedRects ==
    { ClampedRect(person_instances[k], SourceWidth, SourceHeight) :
        k \in { j \in 1 .. Len(outcomes) : outcomes[j] = "applied" } }

InRect(p, rect) ==
    rect[1] <= p[1] /\ p[1] < rect[3] /\ rect[2] <= p[2] /\ p[2] < rect[4]

\* The working image has the source's size, and every pixel outside the
\* target rectangles composited so far has its source value.
C6_OutsideUntouched ==
    pc # "start" =>
        /\ images["work"].size = original.size
        /\ DOMAIN images["work"].px = DOMAIN original.px
        /\ \A p \in DOMAIN original.px :
              (\A rect \in AppliedRects : ~InRect(p, rect)) =>
                  images["work"].px[p] = original.px[p]

\* A step changes no pixel outside the target rectangle it works on.
C6_StepWritesInsideRect ==
    pc # "start" =>
        \A p \in DOMAIN images["work"].px :
            ~InRect(p, <<left', top', right', bottom'>>) =>
                images'["work"].px[p] = images["work"].px[p]

\* C6: the edited image has the size of the source; every pixel outside the
\* union of the composited target rectangles equals the source pixel; each
\* composite step writes only inside its own target rectangle.
C6_FrameOfEdits == [](C6_OutsideUntouched) /\ [][C6_StepWritesInsideRect]_vars

\* Two boxes were composited and the image differs from the source.
C6_Witness ==
    /\ pc = "done"
    /\ outcomes = <<"applied", "applied">>
    /\ \E p \in DOMAIN original.px : images[result].px[p] # original.px[p]
    /\ \E p \in DOMAIN original.px : images[result].px[p] = original.px[p]

\* The image the loop has produced once the first n instances are done.
AfterBoxes(n) == RemovePeople(original, SubSeq(person_instances, 1, n))

\* C7: boxes are processed in input order, and the donor strip of box k is
\* cropped out of the working image as boxes 1..k-1 left it, not out of the
\* source.
C7_InputOrderOnWorkingImage ==
    pc \in {"loop", "select", "check", "done"} =>
        LET before == AfterBoxes(idx - 1)
        IN /\ images["work"] = before
           /\ (pc = "check" /\ donor # <<>>) =>
                 replacement_patch = Crop(before, donor)

\* The second box's donor strip holds pixels the first box overwrote.
C7_Witness ==
    /\ pc = "check"
    /\ idx = 2
    /\ outcomes = <<"applied">>
    /\ donor # <<>>
    /\ replacement_patch # Crop(original, donor)

\* The source image has pixels.
ValidSource == SourceWidth > 0 /\ SourceHeight > 0

\* Every visited box has exactly one outcome, the one its geometry decides,
\* and nothing was raised.
C9_OneOutcomePerBox ==
    ValidSource =>
        /\ pc # "raised"
        /\ pc # "start" =>
              /\ idx \in 1 .. Len(person_instances) + 1
              /\ Len(outcomes) = idx - 1
              /\ \A k \in 1 .. Len(outcomes) :
                    outcomes[k] = Classify(person_instances[k], width, height)
        /\ pc = "done" =>
              /\ idx = Len(person_instances) + 1
              /\ result = "work"
              /\ ~images[result].none

\* The loop position only ever moves to the next box.
C9_VisitsInOrder == idx' = idx \/ idx' = idx + 1

\* C9: on an image with W > 0 and H > 0 the function terminates and returns
\* an image; each box is visited exactly once and ends as applied,
\* skipped-degenerate or skipped-no-donor; no box makes the function raise.
C9_AlwaysReturns ==
    /\ (ValidSource ~> pc = "done")
    /\ [](C9_OneOutcomePerBox)
    /\ [][C9_VisitsInOrder]_vars

\* A call that composited its first box, rejected none, and skipped the
\* second for lack of a donor.
C9_Witness ==
    /\ pc = "done"
    /\ ValidSource
    /\ outcomes = <<"applied", "skipped_no_donor">>

----------------------------------------------------------------------------
(* lambda_handler (src/Server/Lambda_handler.py lines 88-290 and           *)
(* src/Lambda_handler.py lines 16-176, which is the same handler without   *)
(* the removePeople parameter and the region remover).                     *)
(*                                                                         *)
(* Text is a sequence of tokens (characters, or longer pieces where only   *)
(* the piece as a whole matters).  What the JSON parser, the base64        *)
(* decoder and the image decoder make of a piece of text is carried by     *)
(* the input itself as its `kind`.                                         *)

\* str.lower() on the characters that occur in the inputs.
LowerChar(c) ==
    CASE c = "T" -> "t" [] c = "R" -> "r" [] c = "U" -> "u" [] c = "E" -> "e"
      [] c = "Y" -> "y" [] c = "S" -> "s" [] c = "O" -> "o" [] c = "N" -> "n"
      [] c = "P" -> "p" [] c = "F" -> "f" [] c = "A" -> "a" [] c = "L" -> "l"
      [] OTHER -> c

Lower(text) == [i \in DOMAIN text |-> LowerChar(text[i])]

IsSpace(c) == c \in {" ", "\t", "\n"}

\* str.strip(): leading and trailing whitespace removed.
RECURSIVE LStrip(_)
LStrip(text) ==
    IF text # <<>> /\ IsSpace(Head(text)) THEN LStrip(Tail(text)) ELSE text

RECURSIVE RStrip(_)
RStrip(text) ==
    IF text # <<>> /\ IsSpace(text[Len(text)])
    THEN RStrip(SubSeq(text, 1, Len(text) - 1)) ELSE text

Strip(text) == LStrip(RStrip(text))

\* Line 182: the words that switch removePeople on.
TrueWords ==
    { <<"t", "r", "u", "e">>, <<"1">>, <<"y", "e", "s">>, <<"y">>, <<"o", "n">> }

\* Values a removePeople key may hold.
BoolValue(b) == [type |-> "bool", b |-> b, n |-> 0, s |-> <<>>]
IntValue(n) == [type |-> "int", b |-> FALSE, n |-> n, s |-> <<>>]
StrValue(s) == [type |-> "str", b |-> FALSE, n |-> 0, s |-> s]

\* Lines 181-184: a string is true when it is one of the words, anything
\* else is bool(value).
NormalizeFlag(v) ==
    IF v.type = "str" THEN Lower(Strip(v.s)) \in TrueWords
    ELSE IF v.type = "bool" THEN v.b
    ELSE v.n # 0

\* dict.get(key, default) for a key held as <<>> (absent) or <<value>>.
GetOr(entry, default) == IF entry = <<>> THEN default ELSE entry[1]

\* json.dumps of a str: the text between double quotes, with the double
\* quote and the backslash escaped.
JsonDumpsText(text) ==
    <<"\"">>
    \o [i \in DOMAIN text |->
          IF text[i] = "\"" THEN "\\\""
          ELSE IF text[i] = "\\" THEN "\\\\"
          ELSE text[i]]
    \o <<"\"">>

\* Lines 272-276 and 284-288: the headers of both responses.
CorsHeaders ==
    [AccessControlAllowOrigin |-> "*",
     AccessControlAllowHeaders |-> "Content-Type",
     ContentType |-> "application/json"]

\* The classes of the exceptions the handler's calls raise; all of them
\* derive from Exception.
ExceptionClasses ==
    { "TypeError", "ValueError", "KeyError", "OverflowError", "binascii.Error",
      "UnidentifiedImageError", "ClientError" }

\* An except clause that names ValueError instead of Exception.
CatchesValueErrorOnly(cls) == cls \in {"ValueError", "binascii.Error"}

\* Line 279: except Exception.
Catches(cls) == cls \in ExceptionClasses

Exc(cls, msg) == << [cls |-> cls, msg |-> msg] >>

----------------------------------------------------------------------------
(* Inputs of lambda_handler *)

\* What a piece of image text turns out to be: a JPEG, a PNG with an alpha
\* channel, text base64 cannot decode, bytes that are no image, the empty
\* string, or a number where the text should be.
PayloadKinds == {"jpeg", "png_rgba", "bad_b64", "not_image", "empty", "non_str"}

\* The image a payload decodes to.
DecodedImage(payload) ==
    IF payload = "jpeg" THEN Tagged(ImgSize, ImgSize) ELSE Ramp(ImgSize, ImgSize)

RemovePeopleInBody == { <<>>, <<BoolValue(TRUE)>>, <<StrValue(<<"f", "a", "l", "s", "e">>)>> }
RemovePeopleInEvent == { <<>>, <<StrValue(<<" ", "Y", "e", "s", " ">>)>>, <<IntValue(0)>> }
RemovePeopleInQuery == { <<>>, <<StrValue(<<"o", "n">>)>>, <<StrValue(<<"n", "o">>)>> }

Body(kind, payload, flag) == [kind |-> kind, payload |-> payload, removePeople |-> flag]

\* event['body']: absent, empty, a number, text that is no JSON, JSON that is
\* neither an object nor a string, an object (as a dict or as JSON text), a
\* JSON string, or long raw text taken as base64.
Bodies ==
    { Body(k, <<>>, <<>>) : k \in {"missing", "empty", "non_str", "bad_json", "json_other"} }
    \cup { Body(k, pl, f) :
             k \in {"dict", "json_dict"},
             pl \in {<<>>} \cup { <<x>> : x \in PayloadKinds },
             f \in RemovePeopleInBody }
    \cup { Body("json_str", <<x>>, <<>>) : x \in PayloadKinds \ {"non_str"} }
    \cup { Body("raw", <<x>>, <<>>) : x \in {"jpeg", "bad_b64", "not_image"} }

\* How int() takes maxLabels and confidence: fine, a ValueError or TypeError
\* (caught at line 176), or the OverflowError of an infinite number.
ParamKinds == {"ok", "malformed", "overflow"}

NotADict ==
    [kind |-> "none", body |-> Body("missing", <<>>, <<>>), image |-> <<>>,
     removePeople |-> <<>>, query |-> <<>>, params |-> "ok"]

DictEvents(flagsE, flagsQ) ==
    { [kind |-> "dict", body |-> b, image |-> im, removePeople |-> fe,
       query |-> fq, params |-> pk] :
        b \in Bodies, im \in {<<>>, <<"jpeg">>}, fe \in flagsE, fq \in flagsQ,
        pk \in ParamKinds }

\* The events given to the handler with the region remover, and to the one
\* without (which reads no removePeople key).
ServerEvents == {NotADict} \cup DictEvents(RemovePeopleInEvent, RemovePeopleInQuery)
PlainEvents ==
    { e \in {NotADict} \cup DictEvents({<<>>}, {<<>>}) : e.body.removePeople = <<>> }

\* A label: its 'Name' and 'Instances' keys, each <<>> when absent.
Label(name, instances) == [Name |-> name, Instances |-> instances]

\* Responses of the detection service: no label, labels without a person,
\* a person with and without instances, and a label without a name.
LabelLists ==
    { <<>>,
      << Label(<< <<"C", "a", "r">> >>, <<>>) >>,
      << Label(<< <<"C", "a", "r">> >>, <<>>),
         Label(<< <<"P", "e", "r", "s", "o", "n">> >>, <<>>) >>,
      << Label(<< <<"P", "e", "r", "s", "o", "n">> >>,
               << << Instance(Field(2), Field(2), Field(4), Field(2)),
                     Instance(Absent, Absent, Field(10), Field(8)) >> >>) >>,
      << Label(<< <<"p", "e", "r", "s", "o", "n">> >>,
               << << BareInstance,
                     Instance(Field(2), Field(-2), Field(4), Field(2)) >> >>) >>,
      << Label(<<>>, <<>>) >> }

----------------------------------------------------------------------------
(* lambda_handler as a state machine.  Line numbers are those of           *)
(* src/Server/Lambda_handler.py.                                           *)

\* data = {} (line 103).
EmptyData == [kind |-> "dict", payload |-> <<>>, removePeople |-> <<>>]

\* The default of line 153.
RemovePeopleDefault == BoolValue(FALSE)

InitHandler ==
    /\ \/ variant = "server" /\ event \in ServerEvents
       \/ variant = "plain" /\ event \in PlainEvents
    /\ hpc = "entry"
    /\ data = EmptyData
    /\ base64_string = <<>>
    /\ remove_people = RemovePeopleDefault
    /\ labels = <<>>
    /\ raised = <<>>
    /\ remover_called = FALSE
    /\ response = <<>>
    /\ images = [o \in {"src", "work"} |-> NoImage]
    /\ original = NoImage
    /\ person_instances = <<>>
    /\ working_image = "none"
    /\ width = 0 /\ height = 0
    /\ idx = 1
    /\ pc = "idle"
    /\ left = 0 /\ top = 0 /\ right = 0 /\ bottom = 0
    /\ strip_height = 0 /\ strip_width = 0
    /\ donor = <<>>
    /\ replacement_patch = NoImage
    /\ outcomes = <<>>
    /\ result = "none"

\* raise cls(msg) inside the try block of lines 99-278.
Raise(cls, msg) ==
    /\ raised' = Exc(cls, msg)
    /\ hpc' = "except"

\* Lines 107-109: 'body' not in event.
CheckEvent ==
    /\ hpc = "entry"
    /\ IF event.kind # "dict"
       THEN Raise("TypeError", <<"argument of type 'NoneType' is not iterable">>)
       ELSE IF event.body.kind = "missing"
       THEN Raise("ValueError", <<"No 'body' key found in event">>)
       ELSE hpc' = "body" /\ UNCHANGED raised
    /\ UNCHANGED <<rvars, variant, event, data, base64_string, remove_people,
                   labels, remover_called, response>>

\* Lines 111-117: len(body) for the log, then the empty body is refused.
CheckBody ==
    /\ hpc = "body"
    /\ IF event.body.kind = "non_str"
       THEN Raise("TypeError", <<"object of type 'int' has no len()">>)
       ELSE IF event.body.kind = "empty"
       THEN Raise("ValueError", <<"Request body is empty">>)
       ELSE hpc' = "parse" /\ UNCHANGED raised
    /\ UNCHANGED <<rvars, variant, event, data, base64_string, remove_people,
                   labels, remover_called, response>>

\* Lines 120-136: the body is a dict, or JSON text, or raw base64 text.
ParseBody ==
    /\ hpc = "parse"
    /\ LET body == event.body
       IN IF body.kind \in {"dict", "json_dict"}
          THEN /\ data' = [kind |-> "dict", payload |-> body.payload,
                           removePeople |-> body.removePeople]
               /\ hpc' = "extract"
               /\ UNCHANGED <<base64_string, raised>>
          ELSE IF body.kind = "json_str"
          THEN /\ data' = [kind |-> "str", payload |-> body.payload,
                           removePeople |-> <<>>]
               /\ hpc' = "extract"
               /\ UNCHANGED <<base64_string, raised>>
          ELSE IF body.kind = "json_other"
          THEN /\ data' = [kind |-> "other", payload |-> <<>>,
                           removePeople |-> <<>>]
               /\ hpc' = "extract"
               /\ UNCHANGED <<base64_string, raised>>
          ELSE IF body.kind = "raw"
          THEN /\ base64_string' = body.payload
               /\ hpc' = "extract"
               /\ UNCHANGED <<data, raised>>
          ELSE /\ Raise("ValueError",
                        <<"Invalid JSON in request body: ",
                          "Expecting value: line 1 column 1 (char 0)">>)
               /\ UNCHANGED <<data, base64_string>>
    /\ UNCHANGED <<rvars, variant, event, remove_people, labels,
                   remover_called, response>>

\* Lines 139-149: the image text out of data, else out of the event itself.
ExtractImageData ==
    /\ hpc = "extract"
    /\ LET fromData == IF base64_string # <<>> THEN base64_string
                       ELSE IF data.kind \in {"dict", "str"} THEN data.payload
                       ELSE <<>>
       IN base64_string' = IF fromData = <<>> THEN event.image ELSE fromData
    /\ hpc' = "params"
    /\ UNCHANGED <<rvars, variant, event, data, remove_people, labels, raised,
                   remover_called, response>>

\* Lines 153-169: removePeople from data, then the event, then the query.
RawRemovePeople ==
    LET fromData == IF data.kind = "dict"
                    THEN GetOr(data.removePeople, RemovePeopleDefault)
                    ELSE RemovePeopleDefault
        fromEvent == GetOr(event.removePeople, fromData)
    IN GetOr(event.query, fromEvent)

\* Lines 152-188: the parameters; int() of an infinite number is not among
\* the errors line 176 catches.
ReadParameters ==
    /\ hpc = "params"
    /\ IF event.params = "overflow"
       THEN /\ Raise("OverflowError", <<"cannot convert float infinity to integer">>)
            /\ remove_people' = IF variant = "server" THEN RawRemovePeople
                                ELSE remove_people
       ELSE /\ remove_people' = IF variant = "server"
                                THEN BoolValue(NormalizeFlag(RawRemovePeople))
                                ELSE remove_people
            /\ hpc' = "have_image"
            /\ UNCHANGED raised
    /\ UNCHANGED <<rvars, variant, event, data, base64_string, labels,
                   remover_called, response>>

\* Lines 194-197: no image text, or a number where the text should be.
CheckImageData ==
    /\ hpc = "have_image"
    /\ IF base64_string = <<>> \/ base64_string = <<"empty">>
       THEN Raise("ValueError", <<"No base64 image data found in request body">>)
       ELSE IF base64_string = <<"non_str">>
       THEN Raise("TypeError", <<"object of type 'int' has no len()">>)
       ELSE hpc' = "decode" /\ UNCHANGED raised
    /\ UNCHANGED <<rvars, variant, event, data, base64_string, remove_people,
                   labels, remover_called, response>>

\* Lines 200-217: base64, Image.open, conversion to RGB and JPEG encoding.
DecodeImage ==
    /\ hpc = "decode"
    /\ LET payload == base64_string[1]
       IN IF payload = "bad_b64"
          THEN /\ Raise("binascii.Error", <<"Incorrect padding">>)
               /\ UNCHANGED <<images, original>>
          ELSE IF payload = "not_image"
          THEN /\ Raise("UnidentifiedImageError",
                        <<"cannot identify image file ", "<_io.BytesIO object>">>)
               /\ UNCHANGED <<images, original>>
          ELSE /\ images' = [images EXCEPT !["src"] = DecodedImage(payload)]
               /\ original' = DecodedImage(payload)
               /\ hpc' = "detect"
               /\ UNCHANGED raised
    /\ UNCHANGED <<working_image, width, height, person_instances, idx, pc,
                   left, top, right, bottom, strip_height, strip_width, donor,
                   replacement_patch, outcomes, result>>
    /\ UNCHANGED <<variant, event, data, base64_string, remove_people, labels,
                   remover_called, response>>

\* Lines 222-228: the detection service answers or fails.
DetectLabels ==
    /\ hpc = "detect"
    /\ \/ /\ Raise("ClientError",
                   <<"An error occurred (ThrottlingException) when calling the ",
                     "\"", "DetectLabels", "\"", " operation">>)
          /\ UNCHANGED labels
       \/ /\ labels' \in LabelLists
          /\ hpc' = "labels"
          /\ UNCHANGED raised
    /\ UNCHANGED <<rvars, variant, event, data, base64_string, remove_people,
                   remover_called, response>>

\* Lines 240-243: the first label whose lower-cased name is 'person', as
\* <<>> or <<label>>.
PersonLabel ==
    LET hits == { i \in DOMAIN labels :
                    Lower(GetOr(labels[i].Name, <<>>)) = <<"p", "e", "r", "s", "o", "n">> }
    IN IF hits = {} THEN <<>>
       ELSE << labels[CHOOSE i \in hits : \A j \in hits : i <= j] >>

\* Line 244.
PersonPresent == PersonLabel # <<>>

\* Lines 231-246: labels_info reads every label's 'Name'.
ReadLabels ==
    /\ hpc = "labels"
    /\ IF \E i \in DOMAIN labels : labels[i].Name = <<>>
       THEN Raise("KeyError", <<"'Name'">>)
       ELSE /\ hpc' = IF variant = "server" THEN "remove" ELSE "respond"
            /\ UNCHANGED raised
    /\ UNCHANGED <<rvars, variant, event, data, base64_string, remove_people,
                   labels, remover_called, response>>

\* Lines 249-253: remove_people and person_present; the region remover is
\* called with the decoded image and the person's instances.
CallRemover ==
    /\ hpc = "remove"
    /\ remove_people.b /\ PersonPresent
    /\ person_instances' = GetOr(PersonLabel[1].Instances, <<>>)
    /\ pc' = "start"
    /\ remover_called' = TRUE
    /\ hpc' = "in_remover"
    /\ UNCHANGED <<images, original, working_image, width, height, idx, left,
                   top, right, bottom, strip_height, strip_width, donor,
                   replacement_patch, outcomes, result>>
    /\ UNCHANGED <<variant, event, data, base64_string, remove_people, labels,
                   raised, response>>

\* Line 249 is false: no regenerated image.
SkipRemover ==
    /\ hpc = "remove"
    /\ ~(remove_people.b /\ PersonPresent)
    /\ hpc' = "respond"
    /\ UNCHANGED <<rvars, variant, event, data, base64_string, remove_people,
                   labels, raised, remover_called, response>>

\* Lines 253-257: the region remover has returned (or raised) and its image
\* is encoded.
AfterRemover ==
    /\ hpc = "in_remover"
    /\ pc \in {"done", "raised"}
    /\ IF pc = "raised"
       THEN Raise("ValueError", <<"images do not match">>)
       ELSE hpc' = "respond" /\ UNCHANGED raised
    /\ UNCHANGED <<rvars, variant, event, data, base64_string, remove_people,
                   labels, remover_called, response>>

\* Lines 259-278: the success response.
Respond ==
    /\ hpc = "respond"
    /\ response' = << [statusCode |-> 200,
                       headers |-> CorsHeaders,
                       body |-> IF variant = "server"
                                THEN <<"{", "result_payload", "}">>
                                ELSE <<"[", "labels_info", "]">>] >>
    /\ hpc' = "returned"
    /\ UNCHANGED <<rvars, variant, event, data, base64_string, remove_people,
                   labels, raised, remover_called>>

\* Lines 279-290: except Exception as e; an exception of another class
\* leaves the handler.
HandleException ==
    /\ hpc = "except"
    /\ IF Catches(raised[1].cls)
       THEN /\ response' =
                 << [statusCode |-> 500,
                     headers |-> CorsHeaders,
                     body |-> JsonDumpsText(<<"Failed because of: ">> \o raised[1].msg)] >>
            /\ hpc' = "returned"
       ELSE /\ hpc' = "propagated"
            /\ UNCHANGED response
    /\ UNCHANGED <<rvars, variant, event, data, base64_string, remove_people,
                   labels, raised, remover_called>>

NextHandler ==
    \/ CheckEvent
    \/ CheckBody
    \/ ParseBody
    \/ ExtractImageData
    \/ ReadParameters
    \/ CheckImageData
    \/ DecodeImage
    \/ DetectLabels
    \/ ReadLabels
    \/ CallRemover
    \/ SkipRemover
    \/ Copy
    \/ RejectSize
    \/ RejectClamped
    \/ Accept
    \/ SelectDonor
    \/ NoDonor
    \/ Composite
    \/ Return
    \/ AfterRemover
    \/ Respond
    \/ HandleException

SpecHandler == InitHandler /\ [][NextHandler]_vars

\* An invocation runs until it returns or its exception leaves it.
FairHandler == SpecHandler /\ WF_vars(NextHandler)

----------------------------------------------------------------------------
(* The handler's error policy.                                             *)

\* The response of a finished invocation.
Returned == hpc = "returned"

\* The body is the JSON text of a string that starts with the fixed words:
\* an opening quote, the words, the message, a closing quote.
IsFailureBody(body) ==
    /\ Len(body) >= 3
    /\ body[1] = "\""
    /\ body[2] = "Failed because of: "
    /\ body[Len(body)] = "\""

\* The failures the event alone decides: no 'body' key, an empty body, a
\* body that is neither JSON nor long raw text.
FailsOnEvent ==
    /\ event.kind = "dict"
    /\ event.body.kind \in {"missing", "empty", "bad_json"}

C11_StatusAndFailures ==
    /\ hpc # "propagated"
    /\ Returned =>
          /\ response # <<>>
          /\ response[1].statusCode \in {200, 500}
          /\ response[1].headers = CorsHeaders
          /\ (raised # <<>> \/ FailsOnEvent) =>
                /\ response[1].statusCode = 500
                /\ IsFailureBody(response[1].body)
          /\ response[1].statusCode = 500 => raised # <<>>
    /\ ~Returned => response = <<>>

C11_RemoverOnlyOnRequest ==
    /\ remover_called <=> pc # "idle"
    /\ remover_called =>
          /\ variant = "server"
          /\ NormalizeFlag(RawRemovePeople)
          /\ \E i \in DOMAIN labels :
                Lower(GetOr(labels[i].Name, <<>>)) = <<"p", "e", "r", "s", "o", "n">>

\* C11: lambda_handler lets no exception out: every invocation ends with a
\* response whose statusCode is 200 or 500; every failure (missing 'body'
\* key, empty body, invalid JSON, no image data, undecodable image, an error
\* of the detection service or of the region remover) gives statusCode 500
\* with the CORS headers of the success response and a body that is the
\* JSON string starting "Failed because of: "; the region remover runs only
\* when removePeople is true and a label named 'person' is present.
C11_NeverPropagates ==
    /\ [](C11_StatusAndFailures)
    /\ [](C11_RemoverOnlyOnRequest)
    /\ <>Returned

\* A detection-service error answered with statusCode 500.
C11_Witness ==
    /\ Returned
    /\ raised # <<>>
    /\ raised[1].cls = "ClientError"
    /\ response[1].statusCode = 500
    /\ IsFailureBody(response[1].body)

====
